---- MODULE Spec2Model ----
(***************************************************************************)
(* A model of package nn (src/nn.go and its helper file): a feed-forward   *)
(* network whose layers hold pointers to gonum dense matrices.             *)
(*                                                                         *)
(* float64 values are modelled as fixed-point numbers with Scale units per *)
(* 1.0 (x stands for x / Scale), plus one value NaN that every arithmetic  *)
(* operation propagates.  Heap objects (dense matrices, []int and []layer  *)
(* backing arrays) live in three heaps indexed by address, so that two     *)
(* networks sharing an object is visible in the state.                     *)
(***************************************************************************)
EXTENDS Integers, Sequences, FiniteSets, TLC

\* Bounds of the model.
MaxOps == 3
MaxEpochs == 1

---------------------------------------------------------------------------
(* float64 arithmetic                                                      *)

Radix == 32 * 32
Scale == Radix * Radix
One == Scale
Half == Scale \div 2
NaN == 0 - (Scale * Radix)

IsNaN(x) == x = NaN

FAdd(a, b) == IF IsNaN(a) \/ IsNaN(b) THEN NaN ELSE a + b

FSub(a, b) == IF IsNaN(a) \/ IsNaN(b) THEN NaN ELSE a - b

\* floor(a * b / Scale), computed in pieces that stay within 32 bits.
FMul(a, b) ==
    IF IsNaN(a) \/ IsNaN(b) THEN NaN
    ELSE LET ah == a \div Radix
             al == a % Radix
             bh == b \div Radix
             bl == b % Radix
         IN  ah * bh + ((ah * bl + al * bh) + ((al * bl) \div Radix)) \div Radix

\* floor(a * Scale / b) for 0 < b < 2 * Scale, by long division.
LongDiv(a, b) ==
    LET q1 == a \div b
        r1 == a % b
        q2 == (r1 * Radix) \div b
        r2 == (r1 * Radix) % b
        q3 == (r2 * Radix) \div b
    IN  q1 * Scale + q2 * Radix + q3

RECURSIVE FDiv(_, _)
FDiv(a, b) ==
    IF IsNaN(a) \/ IsNaN(b) \/ b = 0 THEN NaN
    ELSE IF b < 0 THEN FDiv(0 - a, 0 - b)
    ELSE IF b >= 2 * Scale THEN FDiv(a \div 2, b \div 2)
    ELSE LongDiv(a, b)

\* b squared k times.
RECURSIVE SqN(_, _)
SqN(b, k) == IF k = 0 THEN b ELSE SqN(FMul(b, b), k - 1)

\* math.Exp: (1 + x/64)^64 on [-6, 6], held constant outside that range.
ExpLimit == 6 * Scale
Clamp(x) == IF x > ExpLimit THEN ExpLimit ELSE IF x < 0 - ExpLimit THEN 0 - ExpLimit ELSE x
Exp(x) == IF IsNaN(x) THEN NaN ELSE SqN(One + (Clamp(x) \div 64), 6)

lerp(x, li, ui, lo, uo) == FAdd(FMul(FDiv(FSub(x, li), FSub(ui, li)), FSub(uo, lo)), lo)

sigmoid(v) == FDiv(One, FAdd(One, Exp(FSub(0, v))))

dSigmoid(v) == FMul(sigmoid(v), FSub(One, sigmoid(v)))

---------------------------------------------------------------------------
(* Sequences.                                                              *)

\* The sequence <<F(1), ..., F(n)>>.  Concatenation makes TLC build the
\* tuple once instead of evaluating F again at every access.
Tabulate(n, F(_)) == [k \in 1..n |-> F(k)] \o <<>>

---------------------------------------------------------------------------
(* Pseudo-random source: math/rand seeded from the wall clock.             *)

RECURSIVE Lcg(_, _)
Lcg(seed, k) == IF k = 0 THEN seed % 65537 ELSE (Lcg(seed, k - 1) * 75 + 74) % 65537

\* The k-th rand.Float64() after rand.Seed(seed): a value in [0, 1).
Float64(seed, k) == ((Lcg(seed, k) * 16384) \div 65537) * 64

randomArray(size, u, l, seed) ==
    Tabulate(size, LAMBDA k : lerp(Float64(seed, k), 0, One, u, l))

---------------------------------------------------------------------------
(* Dense matrices (values) and the wrappers around gonum's operations.     *)

Zeros(size) == Tabulate(size, LAMBDA k : 0)

NewDense(r, c, data) == [r |-> r, c |-> c, d |-> data]

At(m, i, j) == m.d[(i - 1) * m.c + j]

FromFn(r, c, F(_, _)) ==
    [r |-> r, c |-> c,
     d |-> Tabulate(r * c, LAMBDA k : F(((k - 1) \div c) + 1, ((k - 1) % c) + 1))]

T(m) == FromFn(m.c, m.r, LAMBDA i, j : At(m, j, i))

RECURSIVE DotSum(_, _, _, _, _)
DotSum(m, n, i, j, k) ==
    IF k = 0 THEN 0
    ELSE FAdd(DotSum(m, n, i, j, k - 1), FMul(At(m, i, k), At(n, k, j)))

dot(m, n) == FromFn(m.r, n.c, LAMBDA i, j : DotSum(m, n, i, j, m.c))

mul(m, n) == FromFn(m.r, n.c, LAMBDA i, j : FMul(At(m, i, j), At(n, i, j)))

fun(fn(_), m) == FromFn(m.r, m.c, LAMBDA i, j : fn(At(m, i, j)))

scl(f, m) == FromFn(m.r, m.c, LAMBDA i, j : FMul(f, At(m, i, j)))

add(m, n) == FromFn(m.r, m.c, LAMBDA i, j : FAdd(At(m, i, j), At(n, i, j)))

sub(m, n) == FromFn(m.r, m.c, LAMBDA i, j : FSub(At(m, i, j), At(n, i, j)))

RECURSIVE CostSum(_, _, _)
CostSum(got, expected, k) ==
    IF k = 0 THEN 0
    ELSE LET e == FSub(got[k], expected[k])
         IN  FAdd(CostSum(got, expected, k - 1), FMul(e, e))

totalCost(got, expected) == CostSum(got, expected, Len(got))

---------------------------------------------------------------------------
(* The heaps.  A store is [mats, ints, lays]: mats[a] is the dense matrix  *)
(* at address a, ints[a] a []int backing array, lays[a] a []layer backing  *)
(* array whose elements hold the addresses of their two matrices.          *)

OK == "ok"
ErrInvalidDataSize == "panic: invalid data size"
ErrIndexRange == "panic: index out of range"
ErrDivideByZero == "panic: integer divide by zero"
ErrShape == "panic: dimension mismatch"
ErrLoad == "error"

EmptyStore == [mats |-> <<>>, ints |-> <<>>, lays |-> <<>>]

AllocInts(st, s) == [st EXCEPT !.ints = Append(@, s)]

AllocLays(st, s) == [st EXCEPT !.lays = Append(@, s)]

\* layer k of network net, as a pair of matrix values.
Weights(st, net, k) == st.mats[st.lays[net.layers][k].weights]

Biases(st, net, k) == st.mats[st.lays[net.layers][k].biases]

\* The entries of a network: what Calc depends on.
NetValues(st, net) ==
    Tabulate(Len(st.lays[net.layers]),
             LAMBDA k : [weights |-> Weights(st, net, k), biases |-> Biases(st, net, k)])

ZeroLayer == [weights |-> 0, biases |-> 0]

\* newLayer: allocates the weight matrix, then the bias matrix; each
\* randomArray call seeds the generator from its own reading of the clock.
newLayer(st, layerSize, inputSize, random, t) ==
    [st |-> [st EXCEPT !.mats = @ \o
                << IF random
                   THEN NewDense(layerSize, inputSize,
                                 randomArray(layerSize * inputSize, 0 - One, One, t))
                   ELSE NewDense(layerSize, inputSize, Zeros(layerSize * inputSize)),
                   IF random
                   THEN NewDense(layerSize, 1, randomArray(layerSize, 0 - One, One, t + 1))
                   ELSE NewDense(layerSize, 1, Zeros(layerSize)) >>],
     layer |-> [weights |-> Len(st.mats) + 1, biases |-> Len(st.mats) + 2]]

---------------------------------------------------------------------------
(* Network: the operations, as functions from a store to a store.          *)

NoNetwork == [i |-> 0, o |-> 0, h |-> 0, hidden |-> 0, layers |-> 0, learnRate |-> 0]

\* layers[k] = nl, nl the result of a newLayer call.
StoreLayer(nl, L, k) == [nl.st EXCEPT !.lays[L][k] = nl.layer]

\* The loop of NewNetwork from index k on (k = 1 is the code's i == 0); the
\* k-th newLayer call reads the clock after 2 * (k - 1) earlier readings.
RECURSIVE NewLayers(_, _, _, _, _, _, _, _)
NewLayers(st, L, inputs, outputs, hidden, random, t, k) ==
    IF k > Len(hidden) + 1 THEN st
    ELSE NewLayers(
             StoreLayer(
                 IF k = 1
                 THEN newLayer(st, hidden[k], inputs, random, t)
                 ELSE IF k = Len(hidden) + 1
                 THEN newLayer(st, outputs, hidden[k - 1], random, t + 2 * (k - 1))
                 ELSE newLayer(st, hidden[k], hidden[k - 1], random, t + 2 * (k - 1)),
                 L, k),
             L, inputs, outputs, hidden, random, t, k + 1)

\* NewNetwork; hiddenRef is the caller's slice, which the network keeps.
\* With an empty slice the first iteration indexes hidden[0].
NewNetwork(st, inputs, outputs, hiddenRef, learn, random, t) ==
    IF Len(st.ints[hiddenRef]) = 0
    THEN [st |-> AllocLays(st, <<ZeroLayer>>), outcome |-> ErrIndexRange, net |-> NoNetwork]
    ELSE [st |-> NewLayers(
                     AllocLays(st, Tabulate(Len(st.ints[hiddenRef]) + 1, LAMBDA k : ZeroLayer)),
                     Len(st.lays) + 1, inputs, outputs, st.ints[hiddenRef], random, t, 1),
          outcome |-> OK,
          net |-> [i |-> inputs, o |-> outputs, h |-> Len(st.ints[hiddenRef]) + 1,
                   hidden |-> hiddenRef, layers |-> Len(st.lays) + 1, learnRate |-> learn]]

\* Whether gonum accepts the operands of every product and sum of a forward
\* pass (it panics otherwise).
ForwardShapesOK(st, net) ==
    \A k \in 1..net.h :
        /\ Weights(st, net, k).c = (IF k = 1 THEN net.i ELSE Weights(st, net, k - 1).r)
        /\ Biases(st, net, k).r = Weights(st, net, k).r
        /\ Biases(st, net, k).c = 1

\* zs[k] of a forward pass over input matrix a0.
RECURSIVE Zs(_, _, _, _)
Zs(st, net, a0, k) ==
    add(dot(Weights(st, net, k),
            IF k = 1 THEN a0 ELSE fun(sigmoid, Zs(st, net, a0, k - 1))),
        Biases(st, net, k))

Column(m) == Tabulate(m.r, LAMBDA k : At(m, k, 1))

Calc(st, net, data) ==
    IF Len(data) # net.i THEN [outcome |-> ErrInvalidDataSize, out |-> <<>>]
    ELSE IF ~ForwardShapesOK(st, net) THEN [outcome |-> ErrShape, out |-> <<>>]
    ELSE [outcome |-> OK,
          out |-> Column(fun(sigmoid, Zs(st, net, NewDense(net.i, 1, data), net.h)))]

\* n.layers[k].biases = m and n.layers[k].weights = m: the field of the
\* layer array's element is pointed at a newly allocated matrix.
SetBiases(st, net, k, m) ==
    [st EXCEPT !.mats = Append(@, m), !.lays[net.layers][k].biases = Len(st.mats) + 1]

SetWeights(st, net, k, m) ==
    [st EXCEPT !.mats = Append(@, m), !.lays[net.layers][k].weights = Len(st.mats) + 1]

\* n.layers[k].biases = add(n.layers[k].biases, delta), and the same for
\* the weights.
AddToBiases(st, net, k, delta) == SetBiases(st, net, k, add(Biases(st, net, k), delta))

AddToWeights(st, net, k, delta) == SetWeights(st, net, k, add(Weights(st, net, k), delta))

\* BackProject as it would be were the error terms computed from the
\* weights the network held when the call began.
BackProjectPreCall(st, st0, net, k, layerErrors) ==
    dot(T(Weights(st0, net, k + 1)), layerErrors)

\* The error term of layer k < h: layerErrors back-projected through the
\* weights that layer k + 1 holds when the loop reaches layer k (st is the
\* store at that moment, st0 the store at the start of the call).
BackProject(st, st0, net, k, layerErrors) ==
    dot(T(Weights(st, net, k + 1)), layerErrors)

\* UpdateLayer without the assignment to the biases.
UpdateLayerWeightsOnly(st, net, k, g, a) ==
    AddToWeights(st, net, k, scl(net.learnRate, dot(g, T(a))))

\* One iteration's two assignments: g is mul(layerErrors, fun(dSigmoid,
\* zs[k])), a the activation feeding layer k.
UpdateLayer(st, net, k, g, a) ==
    AddToWeights(AddToBiases(st, net, k, scl(FMul(2 * One, net.learnRate), g)),
                 net, k, scl(net.learnRate, dot(g, T(a))))

\* The backward loop of backpropagate from layer k down to layer 1.  zs and
\* activations are those of the forward pass (store st0); errs collects the
\* error term used for each layer (errs[j] is layer j's).
RECURSIVE BackLoop(_, _, _, _, _, _, _)
RECURSIVE BackStep(_, _, _, _, _, _, _)
BackStep(st, st0, net, input, k, le, errs) ==
    BackLoop(UpdateLayer(st, net, k,
                 mul(le, fun(dSigmoid, Zs(st0, net, input, k))),
                 IF k = 1 THEN input ELSE fun(sigmoid, Zs(st0, net, input, k - 1))),
             st0, net, input, k - 1, le, [errs EXCEPT ![k] = le])

BackLoop(st, st0, net, input, k, layerErrors, errs) ==
    IF k = 0 THEN [st |-> st, outcome |-> OK, errs |-> errs]
    ELSE IF k > Len(st.lays[net.layers])
    THEN [st |-> st, outcome |-> ErrIndexRange, errs |-> errs]
    ELSE BackStep(st, st0, net, input, k,
                  IF k # net.h THEN BackProject(st, st0, net, k, layerErrors)
                  ELSE layerErrors,
                  errs)

backpropagate(st, net, inputData, expectedData) ==
    IF Len(inputData) # net.i \/ Len(expectedData) # net.o
    THEN [st |-> st, outcome |-> ErrInvalidDataSize, errs |-> <<>>]
    ELSE IF ~ForwardShapesOK(st, net) \/ Weights(st, net, net.h).r # net.o
    THEN [st |-> st, outcome |-> ErrShape, errs |-> <<>>]
    ELSE BackLoop(st, st, net, NewDense(net.i, 1, inputData), net.h,
                  sub(NewDense(net.o, 1, expectedData),
                      fun(sigmoid, Zs(st, net, NewDense(net.i, 1, inputData), net.h))),
                  Tabulate(net.h, LAMBDA k : 0))

\* One epoch of Train from example k on: backpropagate (result b), then the
\* cost of the updated network on the same example (Calc's result c).
RECURSIVE TrainExamples(_, _, _, _, _, _, _)
RECURSIVE AfterCalc(_, _, _, _, _, _, _, _)
RECURSIVE AfterBackpropagate(_, _, _, _, _, _, _)
AfterCalc(st, c, net, inputs, expected, k, calls, cost) ==
    IF c.outcome # OK
    THEN [st |-> st, outcome |-> c.outcome, calls |-> calls + 1, cost |-> cost]
    ELSE TrainExamples(st, net, inputs, expected, k + 1, calls + 1,
                       FAdd(cost, totalCost(expected[k], c.out)))

AfterBackpropagate(b, net, inputs, expected, k, calls, cost) ==
    IF b.outcome # OK
    THEN [st |-> b.st, outcome |-> b.outcome, calls |-> calls + 1, cost |-> cost]
    ELSE AfterCalc(b.st, Calc(b.st, net, inputs[k]), net, inputs, expected, k, calls, cost)

TrainExamples(st, net, inputs, expected, k, calls, cost) ==
    IF k > Len(inputs) THEN [st |-> st, outcome |-> OK, calls |-> calls, cost |-> cost]
    ELSE AfterBackpropagate(backpropagate(st, net, inputs[k], expected[k]),
                            net, inputs, expected, k, calls, cost)

\* The epochs of Train from epoch on; e is the result of one epoch.
RECURSIVE TrainEpochs(_, _, _, _, _, _, _, _)
RECURSIVE AfterEpoch(_, _, _, _, _, _)
AfterEpoch(e, net, inputs, expected, epoch, epochs) ==
    IF e.outcome # OK THEN e
    ELSE TrainEpochs(e.st, net, inputs, expected, epoch + 1, epochs, e.calls,
                     FDiv(e.cost, Len(inputs) * One))

TrainEpochs(st, net, inputs, expected, epoch, epochs, calls, avg) ==
    IF epoch >= epochs THEN [st |-> st, outcome |-> OK, calls |-> calls, cost |-> avg]
    ELSE AfterEpoch(TrainExamples(st, net, inputs, expected, 1, calls, 0),
                    net, inputs, expected, epoch, epochs)

\* The final summary of Train: delta / int64(epochs).
Summary(r, epochs) ==
    IF r.outcome = OK /\ epochs = 0 THEN [r EXCEPT !.outcome = ErrDivideByZero] ELSE r

Shorter(a, b) == IF Len(a) < Len(b) THEN Len(a) ELSE Len(b)

\* Train with the comparison of the two lengths made after the epochs, which
\* run over the examples both lists have.
TrainCheckingLengthsLast(st, net, inputs, expected, epochs) ==
    IF Len(inputs) # Len(expected)
    THEN [TrainEpochs(st, net, SubSeq(inputs, 1, Shorter(inputs, expected)),
                      SubSeq(expected, 1, Shorter(inputs, expected)), 0, epochs, 0, 0)
             EXCEPT !.outcome = ErrInvalidDataSize]
    ELSE Summary(TrainEpochs(st, net, inputs, expected, 0, epochs, 0, 0), epochs)

\* Train; calls counts the backpropagate calls made, cost is the last
\* epoch's average cost.
Train(st, net, inputs, expected, epochs) ==
    IF Len(inputs) # Len(expected)
    THEN [st |-> st, outcome |-> ErrInvalidDataSize, calls |-> 0, cost |-> 0]
    ELSE Summary(TrainEpochs(st, net, inputs, expected, 0, epochs, 0, 0), epochs)

\* mat.NewDense(r, c, randomArray(r*c, -1*strength, 1*strength)) for the
\* dimensions of m.
Noise(m, strength, t) ==
    NewDense(m.r, m.c, randomArray(m.r * m.c, FMul(0 - One, strength), FMul(One, strength), t))

PerturbWeights(st, net, k, strength, t) ==
    AddToWeights(st, net, k, Noise(Weights(st, net, k), strength, t))

PerturbBiases(st, net, k, strength, t) ==
    AddToBiases(st, net, k, Noise(Biases(st, net, k), strength, t))

RECURSIVE PerturbLayers(_, _, _, _, _)
PerturbLayers(st, net, strength, t, k) ==
    IF k > net.h THEN st
    ELSE PerturbLayers(
             PerturbBiases(PerturbWeights(st, net, k, strength, t + 2 * (k - 1)),
                           net, k, strength, t + 2 * (k - 1) + 1),
             net, strength, t, k + 1)

Perturb(st, net, strength, t) == PerturbLayers(st, net, strength, t, 1)

\* Copy with the copy's layers field left pointing at the receiver's array.
CopySharingLayers(st, net) ==
    [st |-> [st EXCEPT
                !.ints = Append(@, Tabulate(Len(st.ints[net.hidden]),
                                            LAMBDA k : st.ints[net.hidden][k]))],
     net |-> [net EXCEPT !.hidden = Len(st.ints) + 1]]

\* Copy: a new []int and a new []layer, filled by copy() element by element;
\* an element of the []layer is the pair of matrix pointers.
Copy(st, net) ==
    [st |-> [st EXCEPT
                !.ints = Append(@, Tabulate(Len(st.ints[net.hidden]),
                                            LAMBDA k : st.ints[net.hidden][k])),
                !.lays = Append(@, Tabulate(Len(st.lays[net.layers]),
                                            LAMBDA k : st.lays[net.layers][k]))],
     net |-> [net EXCEPT !.hidden = Len(st.ints) + 1, !.layers = Len(st.lays) + 1]]

---------------------------------------------------------------------------
(* Persistence: a zip archive is the sequence of its entries, an entry a   *)
(* name and its content.  The file system is taken to be reliable: Save    *)
(* and Load fail only for what the archive holds.                          *)

MetaName == <<0 - 1, "meta.json">>

\* fmt.Sprintf("%dw.bin", i) and fmt.Sprintf("%db.bin", i), i counted from 0.
WPath(i) == <<i, "w.bin">>

BPath(i) == <<i, "b.bin">>

\* The decimal text of a finite float, as json.Marshal writes it and
\* json.Unmarshal reads it: sign, integer part, digits after the point.
RECURSIVE FracDigits(_)
FracDigits(f) ==
    IF f = 0 THEN <<>> ELSE <<(f * 10) \div Scale>> \o FracDigits((f * 10) % Scale)

Abs(x) == IF x < 0 THEN 0 - x ELSE x

FormatFloat(x) == [neg |-> x < 0, int |-> Abs(x) \div Scale, frac |-> FracDigits(Abs(x) % Scale)]

RECURSIVE FracValue(_)
FracValue(ds) ==
    IF Len(ds) = 0 THEN 0 ELSE (Head(ds) * Scale + FracValue(Tail(ds))) \div 10

ParseFloat(t) ==
    IF t.neg THEN 0 - (t.int * Scale + FracValue(t.frac)) ELSE t.int * Scale + FracValue(t.frac)

\* json.Marshal(opts): the members in order; a NaN or infinite float has no
\* JSON encoding, and Marshal then returns an error and no bytes.
JsonMarshal(opts) ==
    IF IsNaN(opts.Learn) THEN [err |-> TRUE, bytes |-> <<>>]
    ELSE [err |-> FALSE,
          bytes |-> << [key |-> "I", val |-> <<opts.I>>],
                       [key |-> "O", val |-> <<opts.O>>],
                       [key |-> "H", val |-> opts.H],
                       [key |-> "Learn", val |-> <<FormatFloat(opts.Learn)>>],
                       [key |-> "WPaths", val |-> opts.WPaths],
                       [key |-> "BPaths", val |-> opts.BPaths] >>]

Member(bytes, key) == bytes[CHOOSE k \in 1..Len(bytes) : bytes[k].key = key].val

\* json.Unmarshal(meta, &opts): fails on empty input.
JsonUnmarshal(bytes) ==
    IF Len(bytes) = 0 THEN [err |-> TRUE, opts |-> <<>>]
    ELSE [err |-> FALSE,
          opts |-> [I |-> Member(bytes, "I")[1], O |-> Member(bytes, "O")[1],
                    H |-> Member(bytes, "H"), Learn |-> ParseFloat(Member(bytes, "Learn")[1]),
                    WPaths |-> Member(bytes, "WPaths"),
                    BPaths |-> Member(bytes, "BPaths")]]

\* (*mat.Dense).MarshalBinary: the dimensions, then the entries row by row.
MarshalBinary(m) == <<m.r, m.c>> \o m.d

\* (*mat.Dense).UnmarshalBinaryFrom into an empty (Reset) matrix: whatever
\* dimensions the stream states, provided it holds that many entries.
UnmarshalBinaryFrom(blob) ==
    IF Len(blob) < 2 THEN [err |-> TRUE, m |-> NewDense(0, 0, <<>>)]
    ELSE IF Len(blob) - 2 < blob[1] * blob[2] THEN [err |-> TRUE, m |-> NewDense(0, 0, <<>>)]
    ELSE [err |-> FALSE,
          m |-> NewDense(blob[1], blob[2],
                         Tabulate(blob[1] * blob[2], LAMBDA k : blob[k + 2]))]

HasEntry(entries, name) == \E k \in 1..Len(entries) : entries[k].name = name

Entry(entries, name) ==
    entries[CHOOSE k \in 1..Len(entries) : entries[k].name = name].data

NoFile == [exists |-> FALSE, intact |-> FALSE, entries |-> <<>>]

\* SaveLayers with the bias matrix written under both of a layer's names.
RECURSIVE SaveLayersBiasesTwice(_, _, _, _)
SaveLayersBiasesTwice(st, net, entries, k) ==
    IF k > net.h THEN entries
    ELSE SaveLayersBiasesTwice(st, net,
             entries \o << [name |-> WPath(k - 1), data |-> MarshalBinary(Biases(st, net, k))],
                           [name |-> BPath(k - 1), data |-> MarshalBinary(Biases(st, net, k))] >>,
             k + 1)

RECURSIVE SaveLayers(_, _, _, _)
SaveLayers(st, net, entries, k) ==
    IF k > net.h THEN entries
    ELSE SaveLayers(st, net,
             entries \o << [name |-> WPath(k - 1), data |-> MarshalBinary(Weights(st, net, k))],
                           [name |-> BPath(k - 1), data |-> MarshalBinary(Biases(st, net, k))] >>,
             k + 1)

Options(st, net) ==
    [I |-> net.i, O |-> net.o, H |-> st.ints[net.hidden], Learn |-> net.learnRate,
     WPaths |-> Tabulate(net.h, LAMBDA k : WPath(k - 1)),
     BPaths |-> Tabulate(net.h, LAMBDA k : BPath(k - 1))]

\* Save: the metadata entry (empty when json.Marshal failed: its error is
\* overwritten before it is looked at), then two entries per layer.
Save(st, net) ==
    [exists |-> TRUE, intact |-> TRUE,
     entries |-> SaveLayers(st, net,
                     << [name |-> MetaName, data |-> JsonMarshal(Options(st, net)).bytes] >>,
                     1)]

\* Reset followed by UnmarshalBinaryFrom (result u): the matrix at address
\* a is overwritten in place.
ReadInto(st, a, u) == [st |-> [st EXCEPT !.mats[a] = u.m], err |-> u.err]

\* The loop of Load from layer k on; r is the result of reading a blob.
RECURSIVE LoadLayers(_, _, _, _, _)
RECURSIVE AfterWeights(_, _, _, _, _)
RECURSIVE AfterBiases(_, _, _, _, _)
AfterBiases(r, net, opts, entries, k) ==
    IF r.err THEN [st |-> r.st, outcome |-> ErrLoad]
    ELSE LoadLayers(r.st, net, opts, entries, k + 1)

AfterWeights(r, net, opts, entries, k) ==
    IF r.err \/ ~HasEntry(entries, opts.BPaths[k]) THEN [st |-> r.st, outcome |-> ErrLoad]
    ELSE AfterBiases(ReadInto(r.st, r.st.lays[net.layers][k].biases,
                              UnmarshalBinaryFrom(Entry(entries, opts.BPaths[k]))),
                     net, opts, entries, k)

LoadLayers(st, net, opts, entries, k) ==
    IF k > net.h THEN [st |-> st, outcome |-> OK]
    ELSE IF ~HasEntry(entries, opts.WPaths[k]) THEN [st |-> st, outcome |-> ErrLoad]
    ELSE AfterWeights(ReadInto(st, st.lays[net.layers][k].weights,
                               UnmarshalBinaryFrom(Entry(entries, opts.WPaths[k]))),
                      net, opts, entries, k)

\* What Load returns: nn is NewNetwork's result, r the loop's.
LoadResult(nn, r) ==
    [st |-> r.st, outcome |-> r.outcome,
     net |-> IF r.outcome = OK THEN nn.net ELSE NoNetwork]

LoadInto(nn, opts, entries) ==
    IF nn.outcome # OK THEN nn
    ELSE LoadResult(nn, LoadLayers(nn.st, nn.net, opts, entries, 1))

\* j is json.Unmarshal's result; opts.H is a slice json allocated.
LoadMeta(st, j, entries) ==
    IF j.err THEN [st |-> st, outcome |-> ErrLoad, net |-> NoNetwork]
    ELSE LoadInto(NewNetwork(AllocInts(st, j.opts.H), j.opts.I, j.opts.O,
                             Len(st.ints) + 1, j.opts.Learn, FALSE, 0),
                  j.opts, entries)

\* Load: the metadata, a zero-initialised network of that topology, then the
\* blobs read into its matrices.
Load(st, f) ==
    IF ~f.exists \/ ~HasEntry(f.entries, MetaName)
    THEN [st |-> st, outcome |-> ErrLoad, net |-> NoNetwork]
    ELSE LoadMeta(st, JsonUnmarshal(Entry(f.entries, MetaName)), f.entries)

---------------------------------------------------------------------------
(* The program: a caller holding up to three networks (n built by          *)
(* NewNetwork, m a copy of n, l loaded from the file) and one archive.     *)

VARIABLES
    store,   \* the heaps
    nets,    \* the caller's Network values, by name
    file,    \* the archive on disk
    saved,   \* the store and the network handed to the last Save
    last,    \* the last call: operation, arguments, outcome
    pre,     \* the store and the networks before the last call
    ops      \* number of steps taken, Calc and Save apart

vars == <<store, nets, file, saved, last, pre, ops>>

\* Inputs.
Tenth == One \div 10
InputSizes == {2}
OutputSizes == {1}
Hiddens == {<<>>, <<2>>, <<1, 2>>}
LearnRates == {Tenth}
Times == {1, 2}
Strengths == {Half}
DataVectors == {<<One, 0>>, <<One>>}
ExpectedVectors == {<<One>>}
TrainSets ==
    { [inputs |-> << <<One, 0>> >>, expected |-> << <<One>> >>],
      [inputs |-> << <<One, 0>>, <<One>> >>, expected |-> << <<One>>, <<One>> >>],
      [inputs |-> << <<One, 0>>, <<0, One>> >>, expected |-> << <<One>> >>] }
Names == {"n", "m", "l"}

Put(f, x, v) == [y \in (DOMAIN f) \cup {x} |-> IF y = x THEN v ELSE f[y]]

Call(op, net, outcome) ==
    [op |-> op, net |-> net, outcome |-> outcome, calls |-> 0, errs |-> <<>>,
     out |-> <<>>, inputs |-> <<>>, expected |-> <<>>, epochs |-> 0, hidden |-> <<>>]

Snapshot == [store |-> store, nets |-> nets]

Init ==
    /\ store = EmptyStore
    /\ nets = [x \in {} |-> NoNetwork]
    /\ file = NoFile
    /\ saved = [store |-> EmptyStore, net |-> NoNetwork]
    /\ last = Call("none", "n", OK)
    /\ pre = [store |-> EmptyStore, nets |-> [x \in {} |-> NoNetwork]]
    /\ ops = 0

\* The caller's bookkeeping once an operation has returned or panicked.
Returned(st, call) ==
    /\ store' = st
    /\ last' = call
    /\ pre' = Snapshot

Bound(x, r, call) ==
    /\ nets' = IF r.outcome = OK THEN Put(nets, x, r.net) ELSE nets
    /\ Returned(r.st, [call EXCEPT !.outcome = r.outcome])

\* n = NewNetwork(i, o, h, lr, random), the learning rate drawn from rates.
Construct(rates) ==
    \E i \in InputSizes, o \in OutputSizes, h \in Hiddens, lr \in rates, random \in BOOLEAN :
       \E t \in (IF random THEN Times ELSE {0}) :
          Bound("n",
                NewNetwork(AllocInts(store, h), i, o, Len(store.ints) + 1, lr, random, t),
                [Call("NewNetwork", "n", OK) EXCEPT !.hidden = h])

DoNewNetwork ==
    /\ ops < MaxOps
    /\ "n" \notin DOMAIN nets
    /\ Construct(LearnRates)
    /\ ops' = ops + 1
    /\ UNCHANGED <<file, saved>>

\* The same with a learning rate that may be NaN.
DoNewNetworkAnyRate ==
    /\ ops < MaxOps
    /\ "n" \notin DOMAIN nets
    /\ Construct(LearnRates \cup {NaN})
    /\ ops' = ops + 1
    /\ UNCHANGED <<file, saved>>

Calculated(x, data, r) ==
    Returned(store, [Call("Calc", x, r.outcome) EXCEPT !.out = r.out, !.inputs = <<data>>])

DoCalc ==
    /\ \E x \in DOMAIN nets, data \in DataVectors :
         Calculated(x, data, Calc(store, nets[x], data))
    /\ UNCHANGED <<nets, file, saved, ops>>

Backpropagated(x, data, e, r) ==
    Returned(r.st, [Call("backpropagate", x, r.outcome) EXCEPT
                       !.errs = r.errs, !.inputs = <<data>>, !.expected = <<e>>])

DoBackpropagate ==
    /\ ops < MaxOps
    /\ \E x \in DOMAIN nets, data \in DataVectors, e \in ExpectedVectors :
         Backpropagated(x, data, e, backpropagate(store, nets[x], data, e))
    /\ ops' = ops + 1
    /\ UNCHANGED <<nets, file, saved>>

Trained(x, ts, epochs, r) ==
    Returned(r.st, [Call("Train", x, r.outcome) EXCEPT
                       !.calls = r.calls, !.out = <<r.cost>>, !.inputs = ts.inputs,
                       !.expected = ts.expected, !.epochs = epochs])

DoTrain ==
    /\ ops < MaxOps
    /\ \E x \in DOMAIN nets, ts \in TrainSets, epochs \in 0..MaxEpochs :
         Trained(x, ts, epochs, Train(store, nets[x], ts.inputs, ts.expected, epochs))
    /\ ops' = ops + 1
    /\ UNCHANGED <<nets, file, saved>>

DoPerturb ==
    /\ ops < MaxOps
    /\ \E x \in DOMAIN nets, strength \in Strengths, t \in Times :
         Returned(Perturb(store, nets[x], strength, t), Call("Perturb", x, OK))
    /\ ops' = ops + 1
    /\ UNCHANGED <<nets, file, saved>>

Copied(r) ==
    /\ nets' = Put(nets, "m", r.net)
    /\ Returned(r.st, Call("Copy", "n", OK))

DoCopy ==
    /\ ops < MaxOps
    /\ "n" \in DOMAIN nets
    /\ "m" \notin DOMAIN nets
    /\ Copied(Copy(store, nets["n"]))
    /\ ops' = ops + 1
    /\ UNCHANGED <<file, saved>>

DoSave ==
    /\ \E x \in DOMAIN nets :
         /\ file' = Save(store, nets[x])
         /\ saved' = [store |-> store, net |-> nets[x]]
         /\ Returned(store, Call("Save", x, OK))
    /\ UNCHANGED <<nets, ops>>

\* The blob of a matrix with one more row than the matrix of blob b.
Reshaped(b) == MarshalBinary(NewDense(b[1] + 1, b[2], Zeros((b[1] + 1) * b[2])))

\* entries with entry k's content replaced by a reshaped blob.
ReplaceEntry(entries, k) ==
    Tabulate(Len(entries),
             LAMBDA j : IF j = k
                        THEN [name |-> entries[j].name, data |-> Reshaped(entries[j].data)]
                        ELSE entries[j])

\* entries without entry k.
RemoveEntry(entries, k) == SubSeq(entries, 1, k - 1) \o SubSeq(entries, k + 1, Len(entries))

\* The environment replaces one blob of the archive by the blob of a matrix
\* of other dimensions, or deletes one entry.
DoCorrupt ==
    /\ ops < MaxOps
    /\ file.exists
    /\ file.intact
    /\ \E k \in 1..Len(file.entries) :
         \/ /\ k > 1
            /\ file' = [exists |-> TRUE, intact |-> FALSE,
                        entries |-> ReplaceEntry(file.entries, k)]
         \/ file' = [exists |-> TRUE, intact |-> FALSE,
                     entries |-> RemoveEntry(file.entries, k)]
    /\ Returned(store, Call("Corrupt", "l", OK))
    /\ ops' = ops + 1
    /\ UNCHANGED <<nets, saved>>

DoLoad ==
    /\ ops < MaxOps
    /\ "l" \notin DOMAIN nets
    /\ Bound("l", Load(store, file), Call("Load", "l", OK))
    /\ ops' = ops + 1
    /\ UNCHANGED <<file, saved>>

\* The network and its training.
Next ==
    \/ DoNewNetwork
    \/ DoCalc
    \/ DoBackpropagate
    \/ DoTrain
    \/ DoPerturb
    \/ DoCopy

Spec == Init /\ [][Next]_vars

\* The network and its persistence.
NextCodec ==
    \/ DoNewNetworkAnyRate
    \/ DoPerturb
    \/ DoSave
    \/ DoCorrupt
    \/ DoLoad

SpecCodec == Init /\ [][NextCodec]_vars

---------------------------------------------------------------------------
(* Properties.                                                             *)

HasNonZero(m) == \E k \in 1..Len(m.d) : m.d[k] # 0

ZeroInitialised(st, net) ==
    \A k \in 1..net.h : ~HasNonZero(Weights(st, net, k)) /\ ~HasNonZero(Biases(st, net, k))

\* The network the last call was made on, before the call and after it.
Before == pre.nets[last.net]
After == nets[last.net]

\* The entries of network x are what they were before the last call.
Untouched(x) == NetValues(store, nets[x]) = NetValues(pre.store, pre.nets[x])

\* The addresses of the matrices network x holds.
MatrixRefs(x) ==
    {store.lays[nets[x].layers][k].weights : k \in 1..Len(store.lays[nets[x].layers])}
        \cup {store.lays[nets[x].layers][k].biases : k \in 1..Len(store.lays[nets[x].layers])}

\* Every layer of net has the dimensions its metadata implies.
LayerDimsOK(st, net) ==
    /\ net.h = Len(st.ints[net.hidden]) + 1
    /\ Len(st.lays[net.layers]) = net.h
    /\ \A k \in 1..net.h :
         /\ Weights(st, net, k).r = (IF k = net.h THEN net.o ELSE st.ints[net.hidden][k])
         /\ Weights(st, net, k).c = (IF k = 1 THEN net.i ELSE st.ints[net.hidden][k - 1])
         /\ Biases(st, net, k).r = Weights(st, net, k).r
         /\ Biases(st, net, k).c = 1

\* The network Load returned is the one Save was given: metadata, every
\* matrix entry, and Calc's result on every input.
SameNetwork(st, b, st0, a) ==
    /\ b.i = a.i /\ b.o = a.o /\ b.h = a.h /\ b.learnRate = a.learnRate
    /\ st.ints[b.hidden] = st0.ints[a.hidden]
    /\ NetValues(st, b) = NetValues(st0, a)
    /\ \A data \in DataVectors : Calc(st, b, data) = Calc(st0, a, data)

RoundTrip == last.outcome = OK /\ "l" \in DOMAIN nets /\ SameNetwork(store, nets["l"], saved.store, saved.net)

\* Load has just read the archive exactly as the last Save wrote it.
LoadedWhatWasSaved == last.op = "Load" /\ file.exists /\ file.intact

C2_CopyAllocatesNewStorage ==
    last.op = "Copy" =>
        /\ nets["m"].hidden # nets["n"].hidden
        /\ nets["m"].layers # nets["n"].layers
        /\ MatrixRefs("m") \cap MatrixRefs("n") = {}

\* The last call was a mutator on one of n and m, made when both existed.
Mutators == {"backpropagate", "Train", "Perturb"}

Other(x) == IF x = "n" THEN "m" ELSE "n"

MutatedACopy == last.op \in Mutators /\ last.net \in {"n", "m"} /\ "m" \in DOMAIN pre.nets

\* C3: once m = n.Copy() has been made, a backpropagate, Train or Perturb
\* call on either of the two leaves every weight and bias entry of the
\* other as it was before the call (so, over any sequence of such calls on
\* one of them, as it was when the copy was made).
C3_CopyNonInterference == MutatedACopy => Untouched(Other(last.net))

C3_Witness ==
    /\ MutatedACopy
    /\ last.net = "m"
    /\ last.outcome = OK
    /\ ~Untouched("m")
    /\ Untouched("n")

\* C4: NewNetwork with an empty hidden list returns a network of one layer
\* whose weights are outputs x inputs and whose biases are outputs x 1.
C4_EmptyHiddenAccepted ==
    (last.op = "NewNetwork" /\ Len(last.hidden) = 0) =>
        /\ last.outcome = OK
        /\ "n" \in DOMAIN nets
        /\ nets["n"].h = 1
        /\ LayerDimsOK(store, nets["n"])

\* C5: Load never returns without error a network one of whose matrices
\* has dimensions other than those its metadata implies.
C5_LoadRejectsInconsistentBlobs ==
    (last.op = "Load" /\ last.outcome = OK) => LayerDimsOK(store, nets["l"])

\* C6: Train given lists of different lengths panics with the invalid data
\* size error, having called backpropagate not once and changed no entry of
\* the network.
C6_TrainLengthMismatch ==
    (last.op = "Train" /\ Len(last.inputs) # Len(last.expected)) =>
        /\ last.outcome = ErrInvalidDataSize
        /\ last.calls = 0
        /\ Untouched(last.net)

C6_Witness ==
    /\ last.op = "Train"
    /\ Len(last.inputs) > Len(last.expected)
    /\ Len(last.expected) > 0
    /\ last.epochs > 0
    /\ last.outcome = ErrInvalidDataSize
    /\ ~ZeroInitialised(store, After)

\* C7: a Train call of one epoch or more on lists of equal length that
\* panics with the invalid data size error, whatever the position of the
\* example whose length is wrong, leaves every weight and bias entry of the
\* network as it was before the call.
C7_NoPartialMutation ==
    (/\ last.op = "Train"
     /\ Len(last.inputs) = Len(last.expected)
     /\ last.epochs >= 1
     /\ last.outcome = ErrInvalidDataSize) => Untouched(last.net)

\* The scenario of C8: a zero-initialised network of 2 inputs, one hidden
\* layer of 2 and 1 output, learning rate 0.1, trained for one epoch on the
\* single example ([1, 0], [1]).
C8_Scenario ==
    /\ last.op = "Train"
    /\ last.inputs = << <<One, 0>> >>
    /\ last.expected = << <<One>> >>
    /\ last.epochs = 1
    /\ Before.i = 2 /\ Before.o = 1
    /\ pre.store.ints[Before.hidden] = <<2>>
    /\ Before.learnRate = Tenth
    /\ ZeroInitialised(pre.store, Before)

\* C8: after the scenario each of the four matrices (both layers' weights
\* and biases) has an entry that is not zero.
C8_ZeroInitAllMatricesChange ==
    C8_Scenario =>
        /\ last.outcome = OK
        /\ \A k \in 1..2 : HasNonZero(Weights(store, After, k)) /\ HasNonZero(Biases(store, After, k))

C8_Witness == C8_Scenario /\ last.outcome = OK /\ last.calls = 1

\* A backpropagate call that returned, on a network of two layers or more.
BackpropagatedDeep == last.op = "backpropagate" /\ last.outcome = OK /\ After.h >= 2

\* The error term of layer k as back-projected through layer k + 1's
\* weights in store st.
ErrorTermFrom(st, k) == dot(T(Weights(st, After, k + 1)), last.errs[k + 1])

\* C9, as the specification states it: the error term of every layer but
\* the last is the next layer's error term multiplied by the transpose of
\* the next layer's weights as they were before the call.
C9_ErrorTermFromPreCallWeights ==
    BackpropagatedDeep =>
        \A k \in 1..(After.h - 1) : last.errs[k] = ErrorTermFrom(pre.store, k)

\* C9, corrected: the weights are those the next layer holds after its own
\* update in the same call, which are the ones it holds when the call
\* returns.
C9_ErrorTermFromUpdatedWeights ==
    BackpropagatedDeep =>
        \A k \in 1..(After.h - 1) : last.errs[k] = ErrorTermFrom(store, k)

C9_Witness ==
    /\ BackpropagatedDeep
    /\ \E k \in 1..(After.h - 1) :
         /\ HasNonZero(last.errs[k])
         /\ ErrorTermFrom(store, k) # ErrorTermFrom(pre.store, k)

\* C10: Train with epochs = 0 on lists of equal length returns normally,
\* having called backpropagate not once and changed no entry.
C10_ZeroEpochsReturns ==
    (last.op = "Train" /\ last.epochs = 0 /\ Len(last.inputs) = Len(last.expected)) =>
        /\ last.outcome = OK
        /\ last.calls = 0
        /\ Untouched(last.net)

====
